---------------------------- MODULE Spec2Model ----------------------------
(* A model of the code-generation driver of ts-llvm:                       *)
(*   src/src/codegen/generator.ts  emitLLVM, LLVMGenerator                  *)
(*   src/unnamed/part_000          replaceExtension, getMemberIndex,        *)
(*                                 isValueType (the utils module)           *)
(* The statement and declaration emitters (./statement, ./declaration) are  *)
(* imported by generator.ts but are not among the sources; they are         *)
(* modelled from the design document, through the call signatures that      *)
(* generator.ts uses.                                                       *)
EXTENDS Integers, Sequences, FiniteSets, TLC

VARIABLES
  \* ---- emitLLVM ----
  nFiles,       \* number of source files of program.getSourceFiles()
  units,        \* units[u]: the children of source file u dispatched so far
  fileIdx,      \* index of the source file the for-loop is in
  funcs,        \* the module: its functions, each a list of basic blocks
  ip,           \* builder insertion point [f, b]; f = 0: not set
  warns,        \* number of non-fatal notices given to warn()
  pc,           \* where emitLLVM is: "emit", "verify", "returned", "aborted"
  verifyCount,  \* number of calls of llvm.verifyModule
  result,       \* what emitLLVM returned: <<module>>, or <<>> (nothing)
  \* ---- getMemberIndex ----
  decl,         \* the class declaration looked into
  field,        \* the name asked for
  outcome,      \* what getMemberIndex did
  \* ---- createLoadIfAllocaOrPointerToValueType ----
  loadArg,      \* argument of the last call
  loadRes,      \* value returned by the last call
  loadBlock,    \* instructions the builder appended, in order
  \* ---- replaceExtension ----
  filePath, extension, once, twice, extPc

vars == <<nFiles, units, fileIdx, funcs, ip, warns, pc, verifyCount, result,
          decl, field, outcome, loadArg, loadRes, loadBlock,
          filePath, extension, once, twice, extPc>>

emitVars == <<nFiles, units, fileIdx, funcs, ip, warns, pc, verifyCount, result>>
memberVars == <<decl, field, outcome>>
loadVars == <<loadArg, loadRes, loadBlock>>
extVars == <<filePath, extension, once, twice, extPc>>

-----------------------------------------------------------------------------
(* Bounds *)
MaxUnits == 2
MaxNodes == 3

-----------------------------------------------------------------------------
(* Syntax trees.  kids: the children (statements of a block or body, the   *)
(* then arm of an if, members of a class); els: the else arm, if any.       *)
Nd(kind, kids, els) == [kind |-> kind, kids |-> kids, els |-> els]
Leaf(kind) == Nd(kind, <<>>, <<>>)

Expr == Leaf("ExpressionStatement")
Var == Leaf("VariableStatement")
Ret == Leaf("ReturnStatement")
Iface == Leaf("InterfaceDeclaration")
Eof == Leaf("EndOfFileToken")
While == Leaf("WhileStatement")
Blk(kids) == Nd("Block", kids, <<>>)
If1(t) == Nd("IfStatement", <<t>>, <<>>)
If2(t, e) == Nd("IfStatement", <<t>>, <<e>>)
Fn(body) == Nd("FunctionDeclaration", body, <<>>)
Method(body) == Nd("MethodDeclaration", body, <<>>)
Ctor(body) == Nd("Constructor", body, <<>>)
Class(members) == Nd("ClassDeclaration", members, <<>>)
Module(body) == Nd("ModuleDeclaration", body, <<>>)

TopLevelNodes ==
  { Expr, Var, Ret, While,
    Blk(<<While, Var>>),
    If1(Expr), If1(Blk(<<Expr>>)), If2(Blk(<<Ret>>), Blk(<<Var>>)),
    Fn(<<If1(Blk(<<Expr>>)), Ret>>),
    Class(<<Ctor(<<Ret>>), Method(<<Expr, Ret>>)>>),
    Module(<<Iface, Fn(<<Ret>>)>>) }

StatementKinds ==
  {"Block", "ExpressionStatement", "IfStatement", "ReturnStatement", "VariableStatement"}

-----------------------------------------------------------------------------
(* The module under construction *)
Instr(op, src, tgt) == [op |-> op, src |-> src, tgt |-> tgt]
Terminators == {"ret", "br", "condbr"}
BasicBlock(label, of) == [label |-> label, of |-> of, instrs |-> <<>>]
NoIp == [f |-> 0, b |-> 0]
DriverSrc == <<>>

createLLVMFunction(fs, name, of) == Append(fs, [name |-> name, of |-> of, blocks |-> <<>>])
createBlock(fs, f, label, of) ==
  [fs EXCEPT ![f].blocks = Append(@, BasicBlock(label, of))]

getFunction(fs, name) == CHOOSE f \in 1..Len(fs) :
  fs[f].name = name /\ \A g \in 1..(f - 1) : fs[g].name # name

LastBlockOf(fs, f) == [f |-> f, b |-> Len(fs[f].blocks)]
LastBlockOfMain(fs) == LastBlockOf(fs, getFunction(fs, "main"))

\* builder.createX: append at the insertion point, terminated or not; a
\* builder with no insertion point creates the instruction in no block
Emit(G, ins) ==
  IF G.ip = NoIp THEN G
  ELSE [G EXCEPT !.funcs[G.ip.f].blocks[G.ip.b].instrs = Append(@, ins)]
getTerminator(G) ==
  LET is == G.funcs[G.ip.f].blocks[G.ip.b].instrs
  IN  Len(is) > 0 /\ is[Len(is)].op \in Terminators


-----------------------------------------------------------------------------
(* LLVMGenerator.emitNode and the emitters it dispatches to.  G is the     *)
(* generator's state [funcs, ip, warns]; global: parentScope is the global  *)
(* scope; path: the position of the node in the program, <<unit, child>>    *)
(* followed by the positions below it (then arm 1, else arm 2).             *)
RECURSIVE emitNode(_, _, _, _)
RECURSIVE emitChildren(_, _, _, _, _)

\* forEachChild / for-of over statements: emitNode on each, in order
emitChildren(G, kids, k, global, path) ==
  IF k > Len(kids) THEN G
  ELSE emitChildren(emitNode(G, kids[k], global, Append(path, k)),
                    kids, k + 1, global, path)

\* a new scope is entered: the children's parent scope is not the global one
emitBlock(G, node, path) == emitChildren(G, node.kids, 1, FALSE, path)

emitExpressionStatement(G, node, path) == Emit(G, Instr("call", path, {}))

emitVariableStatement(G, node, path) ==
  Emit(Emit(G, Instr("alloca", path, {})), Instr("store", path, {}))

emitReturnStatement(G, node, path) == Emit(G, Instr("ret", path, {}))

\* the arms are dispatched with the scope the if statement itself was given
emitIfStatement(G, node, global, path) ==
  LET f == G.ip.f
      hasElse == Len(node.els) > 0
      fs1 == createBlock(G.funcs, f, "then", path)
      thenB == Len(fs1[f].blocks)
      fs2 == IF hasElse THEN createBlock(fs1, f, "else", path) ELSE fs1
      elseB == Len(fs2[f].blocks)
      fs3 == createBlock(fs2, f, "merge", path)
      mergeB == Len(fs3[f].blocks)
      G1 == Emit([G EXCEPT !.funcs = fs3],
                 Instr("condbr", path, {thenB, IF hasElse THEN elseB ELSE mergeB}))
      G2 == emitNode([G1 EXCEPT !.ip = [f |-> f, b |-> thenB]],
                     node.kids[1], global, Append(path, 1))
      G3 == IF getTerminator(G2) THEN G2 ELSE Emit(G2, Instr("br", path, {mergeB}))
      G4 == IF hasElse
            THEN emitNode([G3 EXCEPT !.ip = [f |-> f, b |-> elseB]],
                          node.els[1], global, Append(path, 2))
            ELSE G3
      G5 == IF hasElse /\ ~getTerminator(G4)
            THEN Emit(G4, Instr("br", path, {mergeB})) ELSE G4
  IN  [G5 EXCEPT !.ip = [f |-> f, b |-> mergeB]]

\* a new function with an open entry block; the body in a function scope.
\* The insertion point is left where the body ended.
emitFunctionDeclaration(G, node, path) ==
  LET fs1 == createLLVMFunction(G.funcs, "fn", path)
      f == Len(fs1)
      fs2 == createBlock(fs1, f, "entry", path)
  IN  emitChildren([G EXCEPT !.funcs = fs2, !.ip = [f |-> f, b |-> 1]],
                   node.kids, 1, FALSE, path)

\* methods and constructor dispatched in the class scope
emitClassDeclaration(G, node, path) == emitChildren(G, node.kids, 1, FALSE, path)

\* a scope for qualified names only
emitModuleDeclaration(G, node, path) == emitChildren(G, node.kids, 1, FALSE, path)

warn(G) == [G EXCEPT !.warns = @ + 1]

\* ResetInsertionPoint with ExpressionStatement missing from the first switch
ResetInsertionPointNotForExpression(G, node, global) ==
  IF node.kind \in (StatementKinds \ {"ExpressionStatement"}) /\ global
  THEN [G EXCEPT !.ip = LastBlockOfMain(G.funcs)]
  ELSE G

\* generator.ts:71-79, the first switch
ResetInsertionPoint(G, node, global) ==
  IF node.kind \in StatementKinds /\ global
  THEN [G EXCEPT !.ip = LastBlockOfMain(G.funcs)]
  ELSE G

\* emitUnhandled with the notice left out
emitUnhandledWithoutNotice(G, node) == G

\* generator.ts:116-117, the default case
emitUnhandled(G, node) == warn(G)

emitNode(G, node, global, path) ==
  LET G1 == ResetInsertionPoint(G, node, global)
  IN  CASE node.kind \in {"FunctionDeclaration", "MethodDeclaration", "Constructor"} ->
             emitFunctionDeclaration(G1, node, path)
        [] node.kind = "ClassDeclaration" -> emitClassDeclaration(G1, node, path)
        [] node.kind = "ModuleDeclaration" -> emitModuleDeclaration(G1, node, path)
        [] node.kind = "Block" -> emitBlock(G1, node, path)
        [] node.kind = "ExpressionStatement" -> emitExpressionStatement(G1, node, path)
        [] node.kind = "IfStatement" -> emitIfStatement(G1, node, global, path)
        [] node.kind = "ReturnStatement" -> emitReturnStatement(G1, node, path)
        [] node.kind = "VariableStatement" -> emitVariableStatement(G1, node, path)
        [] node.kind \in {"EndOfFileToken", "InterfaceDeclaration"} -> G1
        [] OTHER -> emitUnhandled(G1, node)

-----------------------------------------------------------------------------
(* llvm.verifyModule: every function has a block, and every block ends in  *)
(* a terminator and holds no other one.                                     *)
BlockWellFormed(blk) ==
  /\ Len(blk.instrs) > 0
  /\ blk.instrs[Len(blk.instrs)].op \in Terminators
  /\ \A i \in 1..(Len(blk.instrs) - 1) : blk.instrs[i].op \notin Terminators

verifyModule(fs) ==
  \A f \in 1..Len(fs) :
    /\ Len(fs[f].blocks) > 0
    /\ \A b \in 1..Len(fs[f].blocks) : BlockWellFormed(fs[f].blocks[b])

-----------------------------------------------------------------------------
(* emitLLVM *)
Gen == [funcs |-> funcs, ip |-> ip, warns |-> warns]
TotalNodes == LET RECURSIVE Sum(_)
                  Sum(u) == IF u = 0 THEN 0 ELSE Len(units[u]) + Sum(u - 1)
              IN  Sum(Len(units))

\* generator.ts:28-36
EmitInit ==
  /\ nFiles \in 1..MaxUnits
  /\ units = [u \in 1..nFiles |-> <<>>]
  /\ fileIdx = 1
  /\ funcs = createBlock(createLLVMFunction(<<>>, "main", <<>>), 1, "entry", <<>>)
  /\ ip = NoIp
  /\ warns = 0
  /\ pc = "emit"
  /\ verifyCount = 0
  /\ result = <<>>

\* emitSourceFile: one child of the current source file is dispatched
EmitChild ==
  /\ pc = "emit" /\ fileIdx <= nFiles /\ TotalNodes < MaxNodes
  /\ \E node \in TopLevelNodes :
       LET G2 == emitNode(Gen, node, TRUE, <<fileIdx, Len(units[fileIdx]) + 1>>)
       IN  /\ funcs' = G2.funcs
           /\ ip' = G2.ip
           /\ warns' = G2.warns
           /\ units' = [units EXCEPT ![fileIdx] = Append(@, node)]
  /\ UNCHANGED <<nFiles, fileIdx, pc, verifyCount, result>>

\* EndOfFile with the final return placed inside the loop over the files
EndOfFileWithReturn ==
  /\ pc = "emit" /\ fileIdx <= nFiles
  /\ LET G2 == emitNode(Gen, Eof, TRUE, <<fileIdx, Len(units[fileIdx]) + 1>>)
         G3 == Emit([G2 EXCEPT !.ip = LastBlockOf(G2.funcs, 1)], Instr("ret", DriverSrc, {}))
     IN  /\ funcs' = G3.funcs
         /\ ip' = G3.ip
         /\ warns' = G3.warns
  /\ fileIdx' = fileIdx + 1
  /\ UNCHANGED <<nFiles, units, pc, verifyCount, result>>

\* the last child of a source file is its end-of-file token; the for-loop
\* then moves to the next source file
EndOfFile ==
  /\ pc = "emit" /\ fileIdx <= nFiles
  /\ LET G2 == emitNode(Gen, Eof, TRUE, <<fileIdx, Len(units[fileIdx]) + 1>>)
     IN  /\ funcs' = G2.funcs
         /\ ip' = G2.ip
         /\ warns' = G2.warns
  /\ fileIdx' = fileIdx + 1
  /\ UNCHANGED <<nFiles, units, pc, verifyCount, result>>

\* generator.ts:43-44
Finish ==
  /\ pc = "emit" /\ fileIdx > nFiles
  /\ LET G1 == [Gen EXCEPT !.ip = LastBlockOf(funcs, 1)]
         G2 == Emit(G1, Instr("ret", DriverSrc, {}))
     IN  /\ funcs' = G2.funcs
         /\ ip' = G2.ip
  /\ pc' = "verify"
  /\ UNCHANGED <<nFiles, units, fileIdx, warns, verifyCount, result>>

\* Verify with the outcome of verifyModule ignored
VerifyAndReturnAnyway ==
  /\ pc = "verify"
  /\ verifyCount' = verifyCount + 1
  /\ pc' = "returned" /\ result' = <<funcs>>
  /\ UNCHANGED <<nFiles, units, fileIdx, funcs, ip, warns>>

\* generator.ts:46-47; verifyModule throws when the module is malformed
Verify ==
  /\ pc = "verify"
  /\ verifyCount' = verifyCount + 1
  /\ IF verifyModule(funcs)
     THEN pc' = "returned" /\ result' = <<funcs>>
     ELSE pc' = "aborted" /\ result' = <<>>
  /\ UNCHANGED <<nFiles, units, fileIdx, funcs, ip, warns>>


-----------------------------------------------------------------------------
(* getMemberIndex (part_000:20-28) *)
MaxMembers == 3

Member(kind, name) == [kind |-> kind, name |-> name]
Members ==
  { Member("PropertyDeclaration", "x"), Member("PropertyDeclaration", "y"),
    Member("MethodDeclaration", "m"), Member("Constructor", "constructor") }
ClassNames == {"Point", "Line"}
FieldNames == {"x", "y", "m", "z"}
SeqsUpTo(S, n) == UNION {[1..k -> S] : k \in 0..n}

isPropertyDeclaration(member) == member.kind = "PropertyDeclaration"

\* MemberMatches without the test of the member's kind
MemberMatchesByNameOnly(member, name) == member.name = name

\* the predicate given to findIndex
MemberMatches(member, name) == isPropertyDeclaration(member) /\ member.name = name

\* Array.prototype.findIndex with that predicate: the 0-based index of the
\* first element the predicate accepts, -1 when there is none
RECURSIVE findIndexFrom(_, _, _)
findIndexFrom(members, name, i) ==
  IF i > Len(members) THEN -1
  ELSE IF MemberMatches(members[i], name) THEN i - 1
  ELSE findIndexFrom(members, name, i + 1)

getMemberIndex(name, declaration) ==
  LET index == findIndexFrom(declaration.members, name, 1)
  IN  IF index < 0
      THEN [kind |-> "error", type |-> declaration.name, noField |-> name]
      ELSE [kind |-> "index", index |-> index]

MemberInit ==
  /\ decl \in [name : ClassNames, members : SeqsUpTo(Members, MaxMembers)]
  /\ field \in FieldNames
  /\ outcome = [kind |-> "none"]

Lookup ==
  /\ outcome.kind = "none"
  /\ outcome' = getMemberIndex(field, decl)
  /\ UNCHANGED <<decl, field>>

-----------------------------------------------------------------------------
(* createLoadIfAllocaOrPointerToValueType (generator.ts:147-152) and       *)
(* isValueType (part_000:30-32)                                             *)
MaxPtrDepth == 2
MaxLoads == 2

Double == <<"double">>
I1 == <<"i1">>
Struct == <<"struct">>
Ptr(t) == <<"ptr", t>>
RECURSIVE TypesOfDepth(_)
TypesOfDepth(d) ==
  IF d = 0 THEN {Double, I1, Struct}
  ELSE TypesOfDepth(d - 1) \cup {Ptr(t) : t \in TypesOfDepth(d - 1)}
Types == TypesOfDepth(MaxPtrDepth)

isPointerTy(t) == t[1] = "ptr"
elementType(t) == t[2]
isDoubleTy(t) == t = Double
isValueType(t) == isDoubleTy(t)

Value(inst, type) == [inst |-> inst, type |-> type]
\* an alloca of T has type T*; a getelementptr yields a pointer; a call, an
\* argument or a load has any type; a constant here is a scalar
Values ==
  {Value("AllocaInst", t) : t \in {u \in Types : isPointerTy(u)}}
  \cup {Value("GetElementPtrInst", t) : t \in {u \in Types : isPointerTy(u)}}
  \cup {Value(i, t) : i \in {"CallInst", "Argument", "LoadInst"}, t \in Types}
  \cup {Value("Constant", t) : t \in {Double, I1}}

isAllocaInst(value) == value.inst = "AllocaInst"

\* NeedsLoad without the test for a stack allocation
NeedsLoadOnlyForPointerToValueType(value) ==
  isPointerTy(value.type) /\ isValueType(elementType(value.type))

\* the condition of generator.ts:148
NeedsLoad(value) ==
  isAllocaInst(value) \/ (isPointerTy(value.type) /\ isValueType(elementType(value.type)))

\* builder.createLoad: the value of the new load instruction
createLoad(value) == Value("LoadInst", elementType(value.type))

LoadInit == loadArg = <<>> /\ loadRes = <<>> /\ loadBlock = <<>>

createLoadIfAllocaOrPointerToValueType ==
  /\ Len(loadBlock) < MaxLoads
  /\ \E value \in Values :
       /\ loadArg' = <<value>>
       /\ IF NeedsLoad(value)
          THEN /\ loadRes' = <<createLoad(value)>>
               /\ loadBlock' = Append(loadBlock, [op |-> "load", ptr |-> value])
          ELSE /\ loadRes' = <<value>>
               /\ loadBlock' = loadBlock

-----------------------------------------------------------------------------
(* replaceExtension (part_000:5-7); strings are sequences of characters *)
MaxPathLen == 4
MaxExtLen == 2

Chars == {".", "/", "\\", "a"}
NotInClass == {".", "/", "\\"}

\* MatchesAt for the expression /\.[^\.]+$/, which lets separators through
MatchesAtIgnoringSeparators(s, i) ==
  /\ s[i] = "."
  /\ i < Len(s)
  /\ \A j \in (i + 1)..Len(s) : s[j] # "."

\* whether /\.[^\.\/\\]+$/ matches s starting at position i
MatchesAt(s, i) ==
  /\ s[i] = "."
  /\ i < Len(s)
  /\ \A j \in (i + 1)..Len(s) : s[j] \notin NotInClass

\* the regular expression is tried at each position from the left
RECURSIVE FirstMatchFrom(_, _)
FirstMatchFrom(s, i) ==
  IF i > Len(s) THEN 0
  ELSE IF MatchesAt(s, i) THEN i
  ELSE FirstMatchFrom(s, i + 1)

\* String.prototype.replace(regexp, ""): the first match, if any, is removed;
\* a match of this expression always runs to the end of the string
StripExtension(s) ==
  LET i == FirstMatchFrom(s, 1)
  IN  IF i = 0 THEN s ELSE SubSeq(s, 1, i - 1)

replaceExtension(path, ext) == StripExtension(path) \o ext

ExtInit ==
  /\ filePath \in SeqsUpTo(Chars, MaxPathLen)
  /\ extension \in SeqsUpTo(Chars, MaxExtLen)
  /\ once = <<>> /\ twice = <<>>
  /\ extPc = "start"

ReplaceOnce ==
  /\ extPc = "start"
  /\ once' = replaceExtension(filePath, extension)
  /\ extPc' = "once"
  /\ UNCHANGED <<filePath, extension, twice>>

ReplaceAgain ==
  /\ extPc = "once"
  /\ twice' = replaceExtension(once, extension)
  /\ extPc' = "twice"
  /\ UNCHANGED <<filePath, extension, once>>

-----------------------------------------------------------------------------
(* The other operations are not part of a compilation by emitLLVM *)
MemberIdle == decl = <<>> /\ field = "" /\ outcome = [kind |-> "none"]
LoadIdle == loadArg = <<>> /\ loadRes = <<>> /\ loadBlock = <<>>
ExtIdle == filePath = <<>> /\ extension = <<>> /\ once = <<>> /\ twice = <<>> /\ extPc = "idle"
EmitIdle ==
  /\ nFiles = 0 /\ units = <<>> /\ fileIdx = 0 /\ funcs = <<>> /\ ip = NoIp
  /\ warns = 0 /\ pc = "idle" /\ verifyCount = 0 /\ result = <<>>

Init == EmitInit /\ MemberIdle /\ LoadIdle /\ ExtIdle
Next ==
  \/ EmitChild /\ UNCHANGED <<memberVars, loadVars, extVars>>
  \/ EndOfFile /\ UNCHANGED <<memberVars, loadVars, extVars>>
  \/ Finish /\ UNCHANGED <<memberVars, loadVars, extVars>>
  \/ Verify /\ UNCHANGED <<memberVars, loadVars, extVars>>
Spec == Init /\ [][Next]_vars

MemberNext == Lookup /\ UNCHANGED <<emitVars, loadVars, extVars>>
InitMember == EmitIdle /\ MemberInit /\ LoadIdle /\ ExtIdle
SpecMember == InitMember /\ [][MemberNext]_vars

LoadNext == createLoadIfAllocaOrPointerToValueType /\ UNCHANGED <<emitVars, memberVars, extVars>>
InitLoad == EmitIdle /\ MemberIdle /\ LoadInit /\ ExtIdle
SpecLoad == InitLoad /\ [][LoadNext]_vars

ExtNext ==
  \/ ReplaceOnce /\ UNCHANGED <<emitVars, memberVars, loadVars>>
  \/ ReplaceAgain /\ UNCHANGED <<emitVars, memberVars, loadVars>>
InitExt == EmitIdle /\ MemberIdle /\ LoadIdle /\ ExtInit
SpecExt == InitExt /\ [][ExtNext]_vars


-----------------------------------------------------------------------------
(* Reading the module and the program *)
Positions(fs) ==
  UNION { UNION { {<<f, b, i>> : i \in 1..Len(fs[f].blocks[b].instrs)} :
                  b \in 1..Len(fs[f].blocks) } : f \in 1..Len(fs) }
InstrAt(fs, p) == fs[p[1]].blocks[p[2]].instrs[p[3]]
IsPrefix(p, q) == Len(p) <= Len(q) /\ SubSeq(q, 1, Len(p)) = p
Before(p, q) == p[2] < q[2] \/ (p[2] = q[2] /\ p[3] < q[3])
LexLE(a, b) == a[1] < b[1] \/ (a[1] = b[1] /\ a[2] <= b[2])

MainIdx == getFunction(funcs, "main")
DriverRets ==
  {p \in Positions(funcs) : InstrAt(funcs, p).op = "ret" /\ InstrAt(funcs, p).src = DriverSrc}
IsLastOfMain(p) ==
  /\ p[1] = MainIdx
  /\ p[2] = Len(funcs[MainIdx].blocks)
  /\ p[3] = Len(funcs[MainIdx].blocks[p[2]].instrs)

Dispatched == {<<u, i>> : u \in 1..MaxUnits, i \in 1..MaxNodes} \cap
              UNION {{<<u, i>> : i \in 1..Len(units[u])} : u \in 1..Len(units)}
TopLevelStatements == {t \in Dispatched : units[t[1]][t[2]].kind \in StatementKinds}

HandledKinds ==
  StatementKinds \cup
  {"FunctionDeclaration", "MethodDeclaration", "Constructor", "ClassDeclaration",
   "ModuleDeclaration", "EndOfFileToken", "InterfaceDeclaration"}
FunctionKinds == {"FunctionDeclaration", "MethodDeclaration", "Constructor"}

RECURSIVE EmitsCode(_)
EmitsCode(node) ==
  \/ node.kind \in {"ExpressionStatement", "VariableStatement", "ReturnStatement", "IfStatement"}
  \/ node.kind = "Block" /\ \E k \in 1..Len(node.kids) : EmitsCode(node.kids[k])

\* a tree of handled kinds only, with every return inside a function body
RECURSIVE Supported(_, _)
Supported(node, inFunction) ==
  /\ node.kind \in HandledKinds
  /\ node.kind = "ReturnStatement" => inFunction
  /\ \A k \in 1..Len(node.kids) :
       Supported(node.kids[k], inFunction \/ node.kind \in FunctionKinds)
  /\ \A k \in 1..Len(node.els) : Supported(node.els[k], inFunction)

RECURSIVE UnhandledIn(_)
UnhandledIn(node) ==
  LET RECURSIVE SumOver(_, _)
      SumOver(kids, k) == IF k > Len(kids) THEN 0
                          ELSE UnhandledIn(kids[k]) + SumOver(kids, k + 1)
  IN  (IF node.kind \in HandledKinds THEN 0 ELSE 1)
      + SumOver(node.kids, 1) + SumOver(node.els, 1)
UnhandledDispatched ==
  LET RECURSIVE SumUnits(_, _)
      SumUnits(u, i) ==
        IF u > Len(units) THEN 0
        ELSE IF i > Len(units[u]) THEN SumUnits(u + 1, 1)
        ELSE UnhandledIn(units[u][i]) + SumUnits(u, i + 1)
  IN  SumUnits(1, 1)

RECURSIVE Reach(_, _)
Reach(blocks, S) ==
  LET N == S \cup UNION { UNION {blocks[b].instrs[i].tgt : i \in 1..Len(blocks[b].instrs)} :
                          b \in S }
  IN  IF N = S THEN S ELSE Reach(blocks, N)
OneTerminatorAtEnd(blk) ==
  /\ Cardinality({i \in 1..Len(blk.instrs) : blk.instrs[i].op \in Terminators}) = 1
  /\ blk.instrs[Len(blk.instrs)].op \in Terminators

-----------------------------------------------------------------------------
(* C1: the entry function main receives the driver's zero return exactly   *)
(* once, only after every child of every source file has been dispatched:   *)
(* while the files are being emitted main holds no driver return, and from  *)
(* then on it holds exactly one, which is the last instruction of the last  *)
(* block of main, so no top-level statement comes after it.                 *)
C1_ReturnOnceAfterAllUnits ==
  /\ pc = "emit" => DriverRets = {}
  /\ pc \in {"verify", "returned", "aborted"} =>
       /\ fileIdx > nFiles
       /\ Cardinality(DriverRets) = 1
       /\ \A p \in DriverRets : IsLastOfMain(p)

C1_Witness ==
  /\ pc = "returned" /\ nFiles = 2
  /\ units[1] = <<Var>> /\ units[2] = <<Var>>
  /\ Cardinality(DriverRets) = 1

C3_EveryReachableBlockTerminated ==
  (pc \in {"verify", "returned", "aborted"}
     /\ \A t \in Dispatched : Supported(units[t[1]][t[2]], FALSE)) =>
    \A f \in 1..Len(funcs) :
      /\ Len(funcs[f].blocks) >= 1
      /\ \A b \in Reach(funcs[f].blocks, {1}) : OneTerminatorAtEnd(funcs[f].blocks[b])

(* C7: dispatching a node of an unhandled kind gives one notice and        *)
(* nothing else: the module and the insertion point are unchanged, the      *)
(* compilation is not aborted and goes on with the next child; every        *)
(* unhandled node met, nested ones included, gave exactly one notice.       *)
C7_UnhandledSkipped ==
  /\ [](pc # "idle" => warns = UnhandledDispatched)
  /\ [][units' # units =>
          LET node == units'[fileIdx][Len(units'[fileIdx])]
          IN  node.kind \notin HandledKinds =>
                /\ funcs' = funcs /\ ip' = ip /\ warns' = warns + 1
                /\ pc' = "emit" /\ fileIdx' = fileIdx]_vars

C7_Witness ==
  /\ pc = "returned" /\ nFiles = 2
  /\ units[1] = <<While, Expr>> /\ units[2] = <<Var>>
  /\ warns = 1
  /\ Len(funcs[MainIdx].blocks[1].instrs) = 4

(* C8: llvm.verifyModule runs exactly once per compilation, on the module  *)
(* that already holds the final return of main, and before anything is      *)
(* returned; the module is returned only when it verified, and when         *)
(* verification fails the compilation aborts and returns nothing.           *)
C8_VerifiedOnceBeforeReturn ==
  /\ verifyCount = (IF pc \in {"returned", "aborted"} THEN 1 ELSE 0)
  /\ pc = "verify" => Cardinality(DriverRets) = 1 /\ result = <<>>
  /\ pc = "emit" => result = <<>>
  /\ pc = "returned" =>
       /\ result = <<funcs>> /\ verifyModule(funcs)
       /\ Cardinality(DriverRets) = 1 /\ fileIdx > nFiles
  /\ pc = "aborted" => result = <<>> /\ ~verifyModule(funcs)

C8_Witness ==
  /\ pc = "aborted" /\ verifyCount = 1 /\ result = <<>>
  /\ Cardinality(DriverRets) = 1

(* C9, as claimed: for every if statement, at the top level or in a        *)
(* function, the instructions of the then arm are in the then block and     *)
(* those of the else arm in the else block (or in blocks made by ifs        *)
(* inside the arm), and the arm's block ends in a terminator: the arm's     *)
(* own, or the branch to merge appended after the arm.                      *)
C9_ArmsInTheirBlocks ==
  \A f \in 1..Len(funcs) : \A b \in 1..Len(funcs[f].blocks) :
    LET blk == funcs[f].blocks[b]
        arm == Append(blk.of, IF blk.label = "then" THEN 1 ELSE 2)
    IN  blk.label \in {"then", "else"} =>
          /\ \A p \in Positions(funcs) :
               IsPrefix(arm, InstrAt(funcs, p).src) =>
                 /\ p[1] = f
                 /\ p[2] = b \/ IsPrefix(arm, funcs[f].blocks[p[2]].of)
          /\ Len(blk.instrs) > 0
          /\ blk.instrs[Len(blk.instrs)].op \in Terminators


-----------------------------------------------------------------------------
(* getMemberIndex *)
PropertyIndexes == {i \in 1..Len(decl.members) : decl.members[i].kind = "PropertyDeclaration"}
FieldIndexes == {i \in PropertyIndexes : decl.members[i].name = field}

(* C4, as claimed: the index returned for a declared field is its position *)
(* among the declared fields of the class, members that are not properties  *)
(* not counted.                                                             *)
C4_IndexIsPositionAmongFields ==
  outcome.kind = "index" =>
    \E i \in FieldIndexes :
      /\ \A j \in FieldIndexes : i <= j
      /\ outcome.index = Cardinality({j \in PropertyIndexes : j < i})

(* C5: getMemberIndex yields an index only when a property member with     *)
(* exactly the name asked for exists, and the index is that of such a       *)
(* member; for any other name, one that only a method carries included, it  *)
(* raises the error that names the class and the field.                     *)
C5_IndexOnlyForDeclaredField ==
  outcome.kind # "none" =>
    /\ outcome.kind = "index" <=> FieldIndexes # {}
    /\ outcome.kind = "index" => (outcome.index + 1) \in FieldIndexes
    /\ FieldIndexes = {} =>
         outcome = [kind |-> "error", type |-> decl.name, noField |-> field]

C5_Witness ==
  /\ outcome = [kind |-> "error", type |-> "Point", noField |-> "m"]
  /\ decl.members = <<Member("PropertyDeclaration", "x"), Member("MethodDeclaration", "m")>>
  /\ field = "m"

-----------------------------------------------------------------------------
(* createLoadIfAllocaOrPointerToValueType *)
AddressOfValueTypedLocation(v) == v.type[1] = "ptr" /\ v.type[2] = Double
LoadEmitted(v) ==
  /\ loadRes' = <<Value("LoadInst", v.type[2])>>
  /\ loadBlock' = Append(loadBlock, [op |-> "load", ptr |-> v])
ReturnedUnchanged(v) == loadRes' = <<v>> /\ loadBlock' = loadBlock

\* a pointer to an aggregate or to a reference; a value that is no pointer
ReferenceOrAggregateAddress(v) == v.type[1] = "ptr" /\ v.type[2][1] \in {"struct", "ptr"}
PlainValue(v) == v.type[1] # "ptr"

(* C6, as claimed: a load is emitted and its value returned when the       *)
(* argument is the address of a value-typed location; an argument that is   *)
(* the address of a reference or aggregate, a stack allocation included, or *)
(* a plain value is returned unchanged and no instruction is emitted.       *)
(* (Nothing is asked here of the address of a boolean.)                     *)
C6_LoadExactlyForValueTypedAddress ==
  [][loadArg' # <<>> =>
       LET v == loadArg'[1]
       IN  /\ AddressOfValueTypedLocation(v) => LoadEmitted(v)
           /\ ReferenceOrAggregateAddress(v) \/ PlainValue(v) => ReturnedUnchanged(v)]_vars

(* C6, amended: a load is emitted and its value returned exactly when the  *)
(* argument is a stack allocation, whatever it allocates, or the address of *)
(* a value-typed location; any other argument is returned unchanged and no  *)
(* instruction is emitted.                                                  *)
C6_LoadExactlyForAllocaOrValueTypedAddress ==
  [][loadArg' # <<>> =>
       LET v == loadArg'[1]
       IN  IF v.inst = "AllocaInst" \/ AddressOfValueTypedLocation(v)
           THEN LoadEmitted(v) ELSE ReturnedUnchanged(v)]_vars

C6_Witness ==
  /\ loadArg = <<Value("AllocaInst", Ptr(Struct))>>
  /\ loadRes = <<Value("LoadInst", Struct)>>
  /\ loadBlock = <<[op |-> "load", ptr |-> Value("AllocaInst", Ptr(Struct))]>>

-----------------------------------------------------------------------------
(* replaceExtension *)
\* the path ends in "." followed by k >= 1 characters, none ".", "/" or "\"
EndsInExtensionOf(s, k) ==
  /\ k >= 1 /\ k < Len(s)
  /\ s[Len(s) - k] = "."
  /\ \A j \in (Len(s) - k + 1)..Len(s) : s[j] \notin {".", "/", "\\"}
ExtensionLengths(s) == {k \in 1..Len(s) : EndsInExtensionOf(s, k)}
WellFormedExtension(e) ==
  /\ Len(e) >= 2 /\ e[1] = "."
  /\ \A j \in 2..Len(e) : e[j] \notin {".", "/", "\\"}

(* C10: when the path ends in "." and one or more characters none of which *)
(* is ".", "/" or "\", replaceExtension gives the path without that suffix  *)
(* followed by ext; otherwise the whole path followed by ext; and for an    *)
(* ext made of "." and one or more such characters, replacing twice gives   *)
(* what replacing once gives.                                               *)
C10_ReplacesLastSegmentExtension ==
  /\ extPc \in {"once", "twice"} =>
       /\ \A k \in ExtensionLengths(filePath) :
            once = SubSeq(filePath, 1, Len(filePath) - k - 1) \o extension
       /\ ExtensionLengths(filePath) = {} => once = filePath \o extension
  /\ (extPc = "twice" /\ WellFormedExtension(extension)) => twice = once

C10_Witness ==
  /\ extPc = "twice"
  /\ filePath = <<".", "a", "/", "a">> /\ extension = <<".", "a">>
  /\ once = <<".", "a", "/", "a", ".", "a">>
  /\ twice = once

=============================================================================
